---- MODULE Spec2Model ----
(***************************************************************************)
(* rpd - an interactive Reverse Polish Notation calculator (src/main.rs).  *)
(*                                                                         *)
(* The model follows one process running main(): the read loop, the        *)
(* character-at-a-time tokenizer parse_rpd_token, and the stack evaluator  *)
(* calculate_rpd / apply_op stepping through the tokens one at a time.     *)
(*                                                                         *)
(* Characters are one-character strings; a line is a sequence of them.     *)
(* A u32 is kept as its four bytes, least significant first, so that the   *)
(* arithmetic of apply_op keeps its 32-bit width: an overflowing +, - or * *)
(* panics in a build with overflow checks and wraps in a build without,    *)
(* and a division by zero panics in both.                                  *)
(***************************************************************************)
EXTENDS Integers, Sequences, FiniteSets, TLC

(***************************************************************************)
(* Bounds of the model.                                                    *)
(***************************************************************************)
\* longest line body (in characters) that read_line delivers
MaxLen == 3
\* digit characters "0" .. MaxDigit that the input lines are drawn from
MaxDigit == 2

(***************************************************************************)
(* u32 arithmetic (enum PolishNotationToken::Number(u32), VecDeque<u32>).  *)
(***************************************************************************)
\* a u32 is U32Bytes digits in base ByteBase, least significant first
ByteBase == 256
U32Bytes == 4

\* carry propagation over a sequence of column sums; one more digit than cols
RECURSIVE Carry(_, _, _)
Carry(cols, i, c) ==
    IF i > Len(cols) THEN <<c>>
    ELSE LET t == cols[i] + c
         IN  <<t % ByteBase>> \o Carry(cols, i + 1, t \div ByteBase)

Low(digits) == SubSeq(digits, 1, U32Bytes)
HighIsZero(digits) == \A i \in (U32Bytes + 1)..Len(digits) : digits[i] = 0

\* the u32 holding the natural number n
U32Of(n) == Low(Carry([i \in 1..U32Bytes |-> IF i = 1 THEN n ELSE 0], 1, 0))

U32Zero == U32Of(0)

\* x + y: the wrapped sum and whether the true sum left the u32 range
U32Add(x, y) ==
    LET full == Carry([i \in 1..U32Bytes |-> x[i] + y[i]], 1, 0)
    IN  [value |-> Low(full), overflow |-> ~HighIsZero(full)]

\* digits of x - y with borrow b entering digit i, and the final borrow last
RECURSIVE Borrow(_, _, _, _)
Borrow(x, y, i, b) ==
    IF i > U32Bytes THEN <<b>>
    ELSE LET t == x[i] - y[i] - b
         IN  <<t % ByteBase>> \o Borrow(x, y, i + 1, IF t < 0 THEN 1 ELSE 0)

\* x - y: the wrapped difference and whether y > x
U32Sub(x, y) ==
    LET full == Borrow(x, y, 1, 0)
    IN  [value |-> Low(full), overflow |-> full[U32Bytes + 1] = 1]

U32Less(x, y) == U32Sub(x, y).overflow

\* x * y: schoolbook product, column k collecting x[i] * y[k + 1 - i]
U32MulTerm(x, y, i, k) ==
    IF (k + 1 - i) \in 1..U32Bytes THEN x[i] * y[k + 1 - i] ELSE 0

RECURSIVE U32MulColumn(_, _, _, _)
U32MulColumn(x, y, i, k) ==
    IF i > U32Bytes THEN 0
    ELSE U32MulTerm(x, y, i, k) + U32MulColumn(x, y, i + 1, k)

U32Mul(x, y) ==
    LET full == Carry([k \in 1..(2 * U32Bytes - 1) |-> U32MulColumn(x, y, 1, k)], 1, 0)
    IN  [value |-> Low(full), overflow |-> ~HighIsZero(full)]

\* x * ByteBase does not fit a u32
U32TopByte(x) == x[U32Bytes] # 0

\* x * ByteBase, for an x with U32TopByte(x) false
U32ShiftByte(x) == <<0>> \o SubSeq(x, 1, U32Bytes - 1)

\* how many times y fits in r, for y # 0 and r < y * ByteBase
U32QuotientDigit(r, y) ==
    CHOOSE d \in 0..(ByteBase - 1) :
        LET p == U32Mul(U32Of(d), y)
        IN  /\ ~p.overflow
            /\ ~U32Less(r, p.value)
            /\ U32Less(U32Sub(r, p.value).value, y)

\* truncating quotient and remainder of x by y, y # 0, by long division in
\* base ByteBase
RECURSIVE U32DivMod(_, _)
U32DivMod(x, y) ==
    IF U32Less(x, y) THEN [q |-> U32Zero, r |-> x]
    ELSE LET h == IF U32TopByte(y) THEN [q |-> U32Zero, r |-> x]
                  ELSE U32DivMod(x, U32ShiftByte(y))
             d == U32QuotientDigit(h.r, y)
         IN  [q |-> U32Add(U32ShiftByte(h.q), U32Of(d)).value,
              r |-> U32Sub(h.r, U32Mul(U32Of(d), y).value).value]

U32Div(x, y) == U32DivMod(x, y).q

\* what Display for u32 writes: the decimal digits of x
RECURSIVE U32Fmt(_)
U32Fmt(x) ==
    LET h == U32DivMod(x, U32Of(10))
    IN  IF U32Less(x, U32Of(10)) THEN ToString(x[1])
        ELSE U32Fmt(h.q) \o ToString(h.r[1])

(***************************************************************************)
(* Data types.                                                             *)
(***************************************************************************)
\* enum OperationType
OperationType == {"Addition", "Subtraction", "Multiplication", "Division"}

\* impl Display for OperationType
OperationTypeFmt(op) ==
    CASE op = "Addition"       -> "+"
      [] op = "Subtraction"    -> "-"
      [] op = "Multiplication" -> "*"
      [] op = "Division"       -> "/"

\* enum PolishNotationToken
Operation(op) == [token |-> "Operation", op |-> op, num |-> U32Zero]
Number(num)   == [token |-> "Number", op |-> "", num |-> num]
Space         == [token |-> "Space", op |-> "", num |-> U32Zero]

\* enum TokenError
InvalidCharacter(index, ch) ==
    [error |-> "InvalidCharacter", pos |-> index, ch |-> ch, op |-> "",
     msg |-> "", size |-> 0]

\* enum CalculationError
NoNumberFoundForOperation(pos, op) ==
    [error |-> "NoNumberFoundForOperation", pos |-> pos, ch |-> "", op |-> op,
     msg |-> "", size |-> 0]
NoResultAvailable(msg) ==
    [error |-> "NoResultAvailable", pos |-> 0, ch |-> "", op |-> "",
     msg |-> msg, size |-> 0]
IncompleteExpression(size) ==
    [error |-> "IncompleteExpression", pos |-> 0, ch |-> "", op |-> "",
     msg |-> "", size |-> size]

\* impl Display for TokenError
TokenErrorFmt(e) ==
    "Invalid character at position " \o ToString(e.pos + 1)
        \o ", \"" \o e.ch \o "\""

\* CalculationErrorFmt reporting the stack size itself as the count
CalculationErrorFmt_size(e) ==
    CASE e.error = "NoNumberFoundForOperation" ->
            "No number found before the operation " \o OperationTypeFmt(e.op)
                \o " at position " \o ToString(e.pos + 1)
      [] e.error = "NoResultAvailable" -> e.msg
      [] e.error = "IncompleteExpression" ->
            "Incomplete expression. " \o ToString(e.size)
                \o " tokens unprocessed."

\* impl Display for CalculationError
CalculationErrorFmt(e) ==
    CASE e.error = "NoNumberFoundForOperation" ->
            "No number found before the operation " \o OperationTypeFmt(e.op)
                \o " at position " \o ToString(e.pos + 1)
      [] e.error = "NoResultAvailable" -> e.msg
      [] e.error = "IncompleteExpression" ->
            "Incomplete expression. " \o ToString(e.size - 1)
                \o " tokens unprocessed."

\* Result<T, E>, and a panic unwinding out of the call
NoError == [error |-> "", pos |-> 0, ch |-> "", op |-> "", msg |-> "", size |-> 0]
Ok(v) == [is |-> "Ok", error |-> NoError, panic |-> "", val |-> v]
Err(e) == [is |-> "Err", error |-> e, panic |-> ""]
Panicked(m) == [is |-> "Panic", error |-> NoError, panic |-> m]
\* the value of type ()
Unit == <<>>

(***************************************************************************)
(* Tokenizer.                                                              *)
(***************************************************************************)
\* the characters '0'..='9', in order
DigitChars == <<"0", "1", "2", "3", "4", "5", "6", "7", "8", "9">>
IsDigitChar(ch) == \E d \in 1..Len(DigitChars) : DigitChars[d] = ch

\* char::to_digit(10) of a decimal digit character
to_digit(ch) == (CHOOSE d \in 1..Len(DigitChars) : DigitChars[d] = ch) - 1

\* parse_rpd_token taking 'x' for the sign of an addition
parse_rpd_token_x_adds(index, ch) ==
    CASE ch = "+" -> Ok(<<index, Operation("Addition")>>)
      [] ch = "-" -> Ok(<<index, Operation("Subtraction")>>)
      [] ch = "*" -> Ok(<<index, Operation("Multiplication")>>)
      [] ch = "x" -> Ok(<<index, Operation("Addition")>>)
      [] ch = "X" -> Ok(<<index, Operation("Multiplication")>>)
      [] ch = "/" -> Ok(<<index, Operation("Division")>>)
      [] IsDigitChar(ch) -> Ok(<<index, Number(U32Of(to_digit(ch)))>>)
      [] ch = " " -> Ok(<<index, Space>>)
      [] OTHER -> Err(InvalidCharacter(index, ch))

parse_rpd_token(index, ch) ==
    CASE ch = "+" -> Ok(<<index, Operation("Addition")>>)
      [] ch = "-" -> Ok(<<index, Operation("Subtraction")>>)
      [] ch = "*" -> Ok(<<index, Operation("Multiplication")>>)
      [] ch = "x" -> Ok(<<index, Operation("Multiplication")>>)
      [] ch = "X" -> Ok(<<index, Operation("Multiplication")>>)
      [] ch = "/" -> Ok(<<index, Operation("Division")>>)
      [] IsDigitChar(ch) -> Ok(<<index, Number(U32Of(to_digit(ch)))>>)
      [] ch = " " -> Ok(<<index, Space>>)
      [] OTHER -> Err(InvalidCharacter(index, ch))

\* str::trim: the line without its leading and trailing whitespace
WhiteSpace == {" ", "\n", "\t", "\r"}

RECURSIVE trim_start(_)
trim_start(s) ==
    IF s # <<>> /\ s[1] \in WhiteSpace THEN trim_start(Tail(s)) ELSE s

RECURSIVE trim_end(_)
trim_end(s) ==
    IF s # <<>> /\ s[Len(s)] \in WhiteSpace
    THEN trim_end(SubSeq(s, 1, Len(s) - 1))
    ELSE s

trim(s) == trim_end(trim_start(s))

\* collect that drops a character it cannot classify and goes on
RECURSIVE collect_lenient(_, _, _)
collect_lenient(s, i, acc) ==
    IF i > Len(s) THEN Ok(acc)
    ELSE LET r == parse_rpd_token(i - 1, s[i])
         IN  IF r.is = "Err" THEN collect_lenient(s, i + 1, acc)
             ELSE collect_lenient(s, i + 1, Append(acc, r.val))

\* .chars().enumerate().map(parse_rpd_token).collect::<Result<Vec<_>, _>>():
\* the tokens of s from character i on, appended to acc, or the first error
RECURSIVE collect(_, _, _)
collect(s, i, acc) ==
    IF i > Len(s) THEN Ok(acc)
    ELSE LET r == parse_rpd_token(i - 1, s[i])
         IN  IF r.is = "Err" THEN Err(r.error)
             ELSE collect(s, i + 1, Append(acc, r.val))

tokenize(s) == collect(s, 1, <<>>)

(***************************************************************************)
(* State of the process.                                                   *)
(***************************************************************************)
VARIABLES
    overflow_checks, \* the build traps on integer overflow (dev profile) or wraps
    pc,              \* where main is: "prompt", "tokenized", "calc", "returned",
                     \* "reported", or ended: "exited", "panicked"
    line,            \* input.trim() of the line read in this iteration
    token_result,    \* the collected tokens of line, or the TokenError
    idx,             \* calculate_rpd: index of the next token of the for loop
    stack,           \* calculate_rpd: the VecDeque<u32>, back last
    result,          \* what calculate_rpd returned, or the panic that ended it
    printed,         \* what this iteration wrote: [stream, text]
    last_stream      \* the stream the previous iteration reported on

vars == <<overflow_checks, pc, line, token_result, idx, stack, result, printed,
          last_stream>>

NoResult == [is |-> "None", error |-> NoError, panic |-> ""]
NoOutput == [stream |-> "none", text |-> ""]

(***************************************************************************)
(* Evaluator.                                                              *)
(***************************************************************************)
\* VecDeque::pop_back
pop_back(s) ==
    IF s = <<>> THEN [some |-> FALSE, val |-> U32Zero, rest |-> s]
    ELSE [some |-> TRUE, val |-> s[Len(s)], rest |-> SubSeq(s, 1, Len(s) - 1)]

\* x + y, x - y, x * y on u32: panics on overflow when the build checks it,
\* wraps otherwise
checked(r, message) ==
    IF r.overflow /\ overflow_checks THEN Panicked(message) ELSE Ok(r.value)

\* the arithmetic expression of each arm of apply_op
arithmetic(op_type, x, y) ==
    CASE op_type = "Addition" ->
            checked(U32Add(x, y), "attempt to add with overflow")
      [] op_type = "Subtraction" ->
            checked(U32Sub(x, y), "attempt to subtract with overflow")
      [] op_type = "Multiplication" ->
            checked(U32Mul(x, y), "attempt to multiply with overflow")
      [] op_type = "Division" ->
            IF y = U32Zero THEN Panicked("attempt to divide by zero")
            ELSE Ok(U32Div(x, y))

\* no_number storing the position one-based, as the messages print it
no_number_one_based(op_pos, op_type) ==
    Err(NoNumberFoundForOperation(op_pos + 1, op_type))

\* .ok_or_else(|| CalculationError::NoNumberFoundForOperation(op_pos, op_type))
no_number(op_pos, op_type) == Err(NoNumberFoundForOperation(op_pos, op_type))

\* apply_op with the operands the other way round: y OP x
apply_op_swapped(op_pos, op_type, s) ==
    LET y == pop_back(s)
        x == pop_back(y.rest)
        r == arithmetic(op_type, y.val, x.val)
    IN  IF ~y.some THEN [returns |-> no_number(op_pos, op_type), stack |-> y.rest]
        ELSE IF ~x.some
        THEN [returns |-> no_number(op_pos, op_type), stack |-> x.rest]
        ELSE IF r.is = "Panic" THEN [returns |-> r, stack |-> x.rest]
        ELSE [returns |-> Ok(Unit), stack |-> Append(x.rest, r.val)]

\* apply_op: what it returns and what it leaves in *stack
apply_op(op_pos, op_type, s) ==
    LET y == pop_back(s)
        x == pop_back(y.rest)
        r == arithmetic(op_type, x.val, y.val)
    IN  IF ~y.some THEN [returns |-> no_number(op_pos, op_type), stack |-> y.rest]
        ELSE IF ~x.some
        THEN [returns |-> no_number(op_pos, op_type), stack |-> x.rest]
        ELSE IF r.is = "Panic" THEN [returns |-> r, stack |-> x.rest]
        ELSE [returns |-> Ok(Unit), stack |-> Append(x.rest, r.val)]

\* for_token taking a space for the digit 0
for_token_space_pushes(token, s) ==
    CASE token[2].token = "Operation" -> apply_op(token[1], token[2].op, s)
      [] token[2].token = "Number" ->
            [returns |-> Ok(Unit), stack |-> Append(s, token[2].num)]
      [] token[2].token = "Space" ->
            [returns |-> Ok(Unit), stack |-> Append(s, U32Zero)]

\* the body of the for loop of calculate_rpd on one (position, token) pair
for_token(token, s) ==
    CASE token[2].token = "Operation" -> apply_op(token[1], token[2].op, s)
      [] token[2].token = "Number" ->
            [returns |-> Ok(Unit), stack |-> Append(s, token[2].num)]
      [] token[2].token = "Space" -> [returns |-> Ok(Unit), stack |-> s]

\* after_loop letting two leftover values pass for a result
after_loop_two(s) ==
    IF Len(s) > 2
    THEN [returns |-> Err(IncompleteExpression(Len(s))), stack |-> s]
    ELSE LET top == pop_back(s)
         IN  [returns |-> IF top.some THEN Ok(top.val)
                          ELSE Err(NoResultAvailable("No result can be generated.")),
              stack |-> top.rest]

\* calculate_rpd after the loop: the result, and what is left in stack
after_loop(s) ==
    IF Len(s) > 1
    THEN [returns |-> Err(IncompleteExpression(Len(s))), stack |-> s]
    ELSE LET top == pop_back(s)
         IN  [returns |-> IF top.some THEN Ok(top.val)
                          ELSE Err(NoResultAvailable("No result can be generated.")),
              stack |-> top.rest]

\* calculate_rpd from token i on with stack s
RECURSIVE calculate_from(_, _, _)
calculate_from(tokens, i, s) ==
    IF i > Len(tokens) THEN after_loop(s).returns
    ELSE LET step == for_token(tokens[i], s)
         IN  IF step.returns.is = "Ok"
             THEN calculate_from(tokens, i + 1, step.stack)
             ELSE step.returns

calculate_rpd(tokens) == calculate_from(tokens, 1, <<>>)

\* main, from the collect to the match: what one trimmed line comes to
pipeline(s) ==
    LET tr == tokenize(s)
    IN  IF tr.is = "Ok" THEN calculate_rpd(tr.val) ELSE tr

(***************************************************************************)
(* Input lines.                                                            *)
(***************************************************************************)
InputDigits == {DigitChars[d + 1] : d \in 0..MaxDigit}
InputChars == {"+", "-", "*", "x", "X", "/", " ", "$"} \cup InputDigits

\* every line body of at most MaxLen characters
ShortLines == UNION {[1..n -> InputChars] : n \in 0..MaxLen}

\* longer lines: expressions over all ten digits
LongLines ==
    {<<"3", " ", "4", " ", "+">>,
     <<"5", " ", "1", " ", "-">>,
     <<"6", " ", "2", " ", "*">>,
     <<"8", " ", "2", " ", "/">>,
     <<"5", " ", "2", " ", "-">>,
     <<"9", " ", "3", " ", "/">>,
     <<"3", " ", "4", " ", "x">>,
     <<"3", " ", "4", " ", "X">>,
     <<"3", " ", "4", " ", "*">>,
     <<"1", " ", "2", " ", "3", " ", "+">>,
     <<"3", " ", "4", " ", "$">>,
     <<"0", " ", "1", " ", "-">>,
     <<"5", " ", "0", " ", "/">>,
     <<"7", " ", "5", " ", "2", " ", "-">>,
     <<"7", " ", "9", " ", "3", " ", "/">>,
     <<"0", "1", "-", "1", "+">>,
     <<"0", "1", "-", "2", "*">>,
     <<"0", "1", "-", "2", "/">>,
     <<"1", " ", "+", " ", "2", " ", "3">>,
     <<"9", " ", "9", " ", "*", " ", "9", " ", "*">>}

ExitCommand == <<"e", "x", "i", "t">>

\* the exit command and near misses of it
ExitLines ==
    {ExitCommand, <<" ">> \o ExitCommand \o <<" ">>, <<"e", "x", " ", "i", "t">>,
     <<"E", "X", "I", "T">>, <<"e", "*", "i", "t">>, ExitCommand \o <<" ", "1">>}

\* what read_line can leave in input: a body and its newline, or a body cut
\* short by the end of the input (the empty body then is end-of-file itself)
RawInputs ==
    {body \o eol : body \in ShortLines \cup LongLines \cup ExitLines,
                   eol \in {<<>>, <<"\n">>}}

(***************************************************************************)
(* The process: main.                                                      *)
(***************************************************************************)
Init ==
    /\ overflow_checks \in BOOLEAN
    /\ pc = "prompt"
    /\ line = <<>>
    /\ token_result = NoResult
    /\ idx = 0
    /\ stack = <<>>
    /\ result = NoResult
    /\ printed = NoOutput
    /\ last_stream = "none"

\* one pass from the top of the loop to the collect: prompt, read_line, the
\* exit test on the trimmed input, tokenizing the trimmed input
ReadLine ==
    /\ pc = "prompt"
    /\ \E input \in RawInputs :
        /\ line' = trim(input)
        /\ IF trim(input) = ExitCommand
           THEN /\ pc' = "exited"
                /\ token_result' = token_result
           ELSE /\ pc' = "tokenized"
                /\ token_result' = tokenize(trim(input))
    /\ UNCHANGED <<overflow_checks, idx, stack, result, printed, last_stream>>

\* Err(token_error) => eprintln!
ReportTokenError ==
    /\ pc = "tokenized"
    /\ token_result.is = "Err"
    /\ printed' = [stream |-> "stderr",
                   text |-> "An error occurred while evaluating reversed polish notation. "
                            \o TokenErrorFmt(token_result.error)]
    /\ pc' = "reported"
    /\ UNCHANGED <<overflow_checks, line, token_result, idx, stack, result,
                   last_stream>>

\* CallCalculate on a stack that a failed evaluation left a value in
CallCalculate_stale ==
    /\ pc = "tokenized"
    /\ token_result.is = "Ok"
    /\ stack' = IF last_stream = "stderr" THEN <<U32Zero>> ELSE <<>>
    /\ idx' = 1
    /\ pc' = "calc"
    /\ UNCHANGED <<overflow_checks, line, token_result, result, printed,
                   last_stream>>

\* Ok(tokens) => calculate_rpd(tokens): the call, up to the for loop
CallCalculate ==
    /\ pc = "tokenized"
    /\ token_result.is = "Ok"
    /\ stack' = <<>>
    /\ idx' = 1
    /\ pc' = "calc"
    /\ UNCHANGED <<overflow_checks, line, token_result, result, printed,
                   last_stream>>

\* one iteration of the for loop of calculate_rpd
ForToken ==
    /\ pc = "calc"
    /\ idx <= Len(token_result.val)
    /\ LET step == for_token(token_result.val[idx], stack)
       IN  /\ stack' = step.stack
           /\ CASE step.returns.is = "Ok" ->
                     /\ idx' = idx + 1
                     /\ pc' = "calc"
                     /\ result' = result
                [] step.returns.is = "Err" ->
                     /\ idx' = idx
                     /\ pc' = "returned"
                     /\ result' = step.returns
                [] step.returns.is = "Panic" ->
                     /\ idx' = idx
                     /\ pc' = "panicked"
                     /\ result' = step.returns
    /\ UNCHANGED <<overflow_checks, line, token_result, printed, last_stream>>

\* calculate_rpd after the for loop
AfterLoop ==
    /\ pc = "calc"
    /\ idx > Len(token_result.val)
    /\ stack' = after_loop(stack).stack
    /\ result' = after_loop(stack).returns
    /\ pc' = "returned"
    /\ UNCHANGED <<overflow_checks, line, token_result, idx, printed, last_stream>>

\* match calculate_rpd(tokens): Ok(result) => println!, Err(err) => eprintln!
Report ==
    /\ pc = "returned"
    /\ printed' =
         IF result.is = "Ok"
         THEN [stream |-> "stdout", text |-> U32Fmt(result.val)]
         ELSE [stream |-> "stderr",
               text |-> "An error occurred while calculating reversed polish notation. "
                        \o CalculationErrorFmt(result.error)]
    /\ pc' = "reported"
    /\ UNCHANGED <<overflow_checks, line, token_result, idx, stack, result,
                   last_stream>>

\* the end of the loop body: its locals are dropped, the loop starts over
Continue ==
    /\ pc = "reported"
    /\ pc' = "prompt"
    /\ line' = <<>>
    /\ token_result' = NoResult
    /\ idx' = 0
    /\ stack' = <<>>
    /\ result' = NoResult
    /\ printed' = NoOutput
    /\ last_stream' = printed.stream
    /\ UNCHANGED overflow_checks

Next ==
    \/ ReadLine
    \/ ReportTokenError
    \/ CallCalculate
    \/ ForToken
    \/ AfterLoop
    \/ Report
    \/ Continue

Spec == Init /\ [][Next]_vars

(***************************************************************************)
(* Vocabulary of the properties.                                           *)
(***************************************************************************)
\* the tokens calculate_rpd was called with
tokens == token_result.val

OperatorChars == {"+", "-", "*", "x", "X", "/"}
MultiplicationGlyphs == {"*", "x", "X"}
RecognisedChars == OperatorChars \cup {DigitChars[d] : d \in 1..Len(DigitChars)} \cup {" "}

\* the operator a character of the rule table stands for
OperatorOf(ch) ==
    CASE ch = "+" -> "Addition"
      [] ch = "-" -> "Subtraction"
      [] ch \in MultiplicationGlyphs -> "Multiplication"
      [] ch = "/" -> "Division"

\* the token the rule table gives a recognised character
RuleTable(ch) ==
    IF ch \in OperatorChars THEN Operation(OperatorOf(ch))
    ELSE IF ch = " " THEN Space
    ELSE Number(U32Of((CHOOSE d \in 1..10 : DigitChars[d] = ch) - 1))

\* zero-based positions of the characters of s outside the rule table
InvalidPositions(s) == {p \in 0..(Len(s) - 1) : s[p + 1] \notin RecognisedChars}

Least(S) == CHOOSE p \in S : \A q \in S : p <= q

\* among the first n tokens of ts, how many are of the given kind
CountTokens(ts, n, kind) == Cardinality({i \in 1..n : ts[i][2].token = kind})

\* numbers minus operators among the first n characters of s
Depth(s, n) ==
    Cardinality({i \in 1..n : IsDigitChar(s[i])})
        - Cardinality({i \in 1..n : s[i] \in OperatorChars})

\* zero-based positions of the operators of s met with fewer than two values
UnderflowPositions(s) ==
    {p \in 0..(Len(s) - 1) : s[p + 1] \in OperatorChars /\ Depth(s, p) < 2}

\* the loop is about to apply the operator token at idx
AtOperator ==
    /\ pc = "calc"
    /\ idx <= Len(tokens)
    /\ tokens[idx][2].token = "Operation"

\* the two operands an operator would take, and the stack below them
OperandY == stack[Len(stack)]
OperandX == stack[Len(stack) - 1]
Below == SubSeq(stack, 1, Len(stack) - 2)

\* x OP y has a value in u32
Representable(op, x, y) ==
    CASE op = "Addition"       -> ~U32Add(x, y).overflow
      [] op = "Subtraction"    -> ~U32Sub(x, y).overflow
      [] op = "Multiplication" -> ~U32Mul(x, y).overflow
      [] op = "Division"       -> y # U32Zero

\* the value of x OP y in u32, when it has one
ValueOf(op, x, y) ==
    CASE op = "Addition"       -> U32Add(x, y).value
      [] op = "Subtraction"    -> U32Sub(x, y).value
      [] op = "Multiplication" -> U32Mul(x, y).value
      [] op = "Division"       -> U32Div(x, y)

\* the line of this iteration has come to an outcome
Settled ==
    \/ pc \in {"returned", "panicked"}
    \/ pc \in {"tokenized", "reported"} /\ token_result.is = "Err"
    \/ pc = "reported" /\ result.is # "None"

\* that outcome: the token error, what calculate_rpd returned, or the panic
Outcome == IF token_result.is = "Err" THEN token_result ELSE result

(***************************************************************************)
(* Properties.                                                             *)
(***************************************************************************)

\* C1: once calculate_rpd has gone through all its tokens, the size of the
\* stack alone decides what it returns: one value, Ok of that value; none,
\* NoResultAvailable; more than one, IncompleteExpression of the size.
C1_EndDecidedByStackSize ==
    [][(pc = "calc" /\ idx > Len(tokens)) =>
          /\ pc' = "returned"
          /\ Len(stack) = 1 =>
                result' = Ok(stack[1])
          /\ Len(stack) = 0 =>
                result' = Err(NoResultAvailable("No result can be generated."))
          /\ Len(stack) > 1 =>
                result' = Err(IncompleteExpression(Len(stack)))]_vars

\* an expression with an operator has run to its end and returned its value
C1_Witness ==
    /\ pc = "returned"
    /\ idx > Len(tokens)
    /\ result.is = "Ok"
    /\ CountTokens(tokens, Len(tokens), "Operation") > 0

\* C2: an operator applied to a stack of at least two values, y on top and x
\* below it, with x OP y a value of u32, replaces the two by x OP y (x the
\* left operand) and leaves every value below them as it was.
C2_OperatorTakesXThenY ==
    [][(/\ AtOperator
        /\ Len(stack) >= 2
        /\ Representable(tokens[idx][2].op, OperandX, OperandY)) =>
          /\ pc' = "calc"
          /\ idx' = idx + 1
          /\ stack' = Append(Below, ValueOf(tokens[idx][2].op, OperandX, OperandY))]_vars

\* a subtraction or a division of unequal operands has just been applied
\* above a value that stayed on the stack
C2_Witness ==
    /\ pc = "calc"
    /\ idx > 1
    /\ tokens[idx - 1][2].token = "Operation"
    /\ tokens[idx - 1][2].op \in {"Subtraction", "Division"}
    /\ Len(stack) = 2
    /\ stack[2] = U32Of(3)
    /\ stack[1] = U32Of(7)

\* C3: when a line has an operator met with fewer than two values on the
\* stack, calculate_rpd returns NoNumberFoundForOperation with the zero-based
\* position and the operator of the leftmost such character, and the loop
\* stopped at that token; otherwise it returns no such error.
C3_UnderflowAtFirstOperator ==
    pc = "returned" =>
        IF UnderflowPositions(line) # {}
        THEN LET p == Least(UnderflowPositions(line))
             IN  /\ result = Err(NoNumberFoundForOperation(p, OperatorOf(line[p + 1])))
                 /\ idx = p + 1
        ELSE result.error.error # "NoNumberFoundForOperation"

\* an operator found one value only, with tokens still behind it
C3_Witness ==
    /\ pc = "returned"
    /\ result.error.error = "NoNumberFoundForOperation"
    /\ result.error.pos > 0
    /\ Depth(line, result.error.pos) = 1
    /\ Len(line) > result.error.pos + 1

\* C4: a line of recognised characters only gives one token per character,
\* in order, tagged with its zero-based index and classified by the rule
\* table; any other line gives InvalidCharacter of the least unrecognised
\* index and its character, and the evaluator is not run on it.
C4_TokenizeOrFirstInvalid ==
    /\ pc = "tokenized" =>
          IF InvalidPositions(line) = {}
          THEN token_result = Ok([i \in 1..Len(line) |-> <<i - 1, RuleTable(line[i])>>])
          ELSE LET p == Least(InvalidPositions(line))
               IN  token_result = Err(InvalidCharacter(p, line[p + 1]))
    /\ pc \in {"calc", "returned", "panicked"} => InvalidPositions(line) = {}
    /\ (pc = "reported" /\ InvalidPositions(line) # {}) =>
          /\ result = NoResult
          /\ token_result.error.error = "InvalidCharacter"
          /\ printed.stream = "stderr"

\* an invalid character behind an operator that would have underflowed
C4_Witness ==
    /\ pc = "reported"
    /\ token_result.is = "Err"
    /\ token_result.error.pos > 0
    /\ line[1] \in OperatorChars

\* C5: a division by zero or a subtraction with y > x makes the evaluation
\* return an error value: it neither ends the process nor goes on with a
\* wrapped number.
C5_ArithmeticFaultReturnsError ==
    [][(/\ AtOperator
        /\ Len(stack) >= 2
        /\ \/ tokens[idx][2].op = "Division" /\ OperandY = U32Zero
           \/ tokens[idx][2].op = "Subtraction" /\ U32Less(OperandX, OperandY)) =>
          /\ pc' = "returned"
          /\ result'.is = "Err"]_vars

\* C6: the process ends only on a line whose trimmed text is "exit".
C6_EndsOnlyOnExit ==
    pc \in {"exited", "panicked"} => line = ExitCommand

\* C7: putting another multiplication glyph in the place of one leaves the
\* outcome of the line as it is, and an underflow at any of the glyphs is an
\* underflow of Multiplication, printed with the glyph '*'.
C7_MultiplicationGlyphsAgree ==
    /\ Settled =>
          \A i \in 1..Len(line) : \A g \in MultiplicationGlyphs :
              line[i] \in MultiplicationGlyphs =>
                  pipeline([line EXCEPT ![i] = g]) = Outcome
    /\ (/\ pc = "reported"
        /\ result.error.error = "NoNumberFoundForOperation"
        /\ line[result.error.pos + 1] \in MultiplicationGlyphs) =>
          /\ result.error.op = "Multiplication"
          /\ printed.text =
                "An error occurred while calculating reversed polish notation. "
                \o "No number found before the operation * at position "
                \o ToString(result.error.pos + 1)

\* a product written with 'x' or 'X' came to a value, or underflowed there
C7_Witness ==
    /\ pc = "reported"
    /\ \E i \in 1..Len(line) : line[i] \in {"x", "X"}
    /\ result.is = "Ok" \/ result.error.error = "NoNumberFoundForOperation"
    /\ result.is = "Ok" => result.val = U32Of(12)

\* C8: IncompleteExpression(n) carries the number n of values the tokens
\* left on the stack, n is at least 2, and the message counts n - 1 tokens.
C8_IncompleteCountsLeftovers ==
    (pc = "reported" /\ result.error.error = "IncompleteExpression") =>
        LET n == result.error.size
        IN  /\ n = Len(stack)
            /\ n = CountTokens(tokens, Len(tokens), "Number")
                     - CountTokens(tokens, Len(tokens), "Operation")
            /\ n >= 2
            /\ printed.text =
                  "An error occurred while calculating reversed polish notation. "
                  \o "Incomplete expression. " \o ToString(n - 1)
                  \o " tokens unprocessed."

\* "1 2 3 +": two values left, the message counts one
C8_Witness ==
    /\ pc = "reported"
    /\ line = <<"1", " ", "2", " ", "3", " ", "+">>
    /\ result = Err(IncompleteExpression(2))
    /\ stack = <<U32Of(1), U32Of(5)>>

\* C9: the outcome of a line is what the pipeline makes of that line alone,
\* whatever lines the loop has processed before it.
C9_OutcomeOfLineAlone ==
    Settled => Outcome = pipeline(line)

\* a line came to a value, or to an error, right after a line that failed
C9_Witness ==
    /\ pc = "returned"
    /\ last_stream = "stderr"
    /\ Len(tokens) > 1

\* C10: while calculate_rpd runs, the stack holds as many values as numbers
\* minus operators consumed; it is not empty right after an operator; it is
\* empty at the end only if there was neither number nor operator; and a
\* space leaves it as it is.
C10_StackDepth ==
    /\ [](pc = "calc" =>
            /\ Len(stack) = CountTokens(tokens, idx - 1, "Number")
                              - CountTokens(tokens, idx - 1, "Operation")
            /\ (idx > 1 /\ tokens[idx - 1][2].token = "Operation") => Len(stack) >= 1
            /\ (idx > Len(tokens) /\ stack = <<>>) =>
                  /\ CountTokens(tokens, Len(tokens), "Number") = 0
                  /\ CountTokens(tokens, Len(tokens), "Operation") = 0)
    /\ [][(/\ pc = "calc"
           /\ idx <= Len(tokens)
           /\ tokens[idx][2].token = "Space") =>
             (stack' = stack /\ pc' = "calc" /\ idx' = idx + 1)]_vars

\* an operator was applied, then a space passed over a stack of one value
C10_Witness ==
    /\ pc = "calc"
    /\ idx > 2
    /\ tokens[idx - 1][2].token = "Space"
    /\ CountTokens(tokens, idx - 1, "Operation") > 0
    /\ Len(stack) = 1

====
